---- MODULE Spec2Model ----
(***************************************************************************)
(* Model of the BitSet of jyguzman/bitset (src/bitset.go, second revision  *)
(* of the file, `words` in low-to-high order; src/operations.go holds the  *)
(* same helpers as free functions).                                        *)
(*                                                                         *)
(* A uint64 word is modelled as the set of its one-bits, a subset of       *)
(* 0..63, so the width of the word is kept: | is union, & intersection,    *)
(* ^ symmetric difference, ^w (complement) the difference from 0..63,      *)
(* 1 << k the singleton {k}, and (1 << n) - 1 the set of the n low bits.   *)
(* A Go slice []uint64 is a function on 0..len-1.                          *)
(***************************************************************************)
EXTENDS Integers, Sequences, FiniteSets, TLC

VARIABLES bs, otherBs, pc, op, args, err, ret, pre, heap, objs

vars == <<bs, otherBs, pc, op, args, err, ret, pre, heap, objs>>

\* width of a word: the 64 of n / 64, n % 64
WordBits == 64

\* longest index list handed to SetBits, ClearBits, FlipBits
MaxLen == 3

\* sizes handed to NewBitSet: empty, one partial word, an exact multiple of
\* the word width, and more than one word with a partial tail
Sizes == {0, 1, WordBits, WordBits + 6}

\* indices handed to Set, Clear, Flip, Test
Indices == {-1, 0, 1, WordBits - 1, WordBits, WordBits + 5, WordBits + 6}

\* indices that make up the lists handed to the bulk operations: a negative
\* one, the first bit of the first word and the first bit of the second
BulkIndices == {-1, 0, WordBits}

BulkInputs == UNION {[1..k -> BulkIndices] : k \in 0..MaxLen}

None == "none"

----------------------------------------------------------------------------
(* Go integer and uint64 arithmetic *)

\* Go's / on int truncates toward zero
Quo(n, d) == IF n >= 0 THEN n \div d ELSE -((-n) \div d)

\* Go's % on int takes the sign of the dividend
Rem(n, d) == n - d * Quo(n, d)

AllBits == 0..(WordBits - 1)

\* uint64(1) << k; a shift count of 64 or more gives 0
Shl1(k) == IF k \in AllBits THEN {k} ELSE {}

\* (uint64(1) << n) - 1; for n >= 64 the subtraction wraps to all ones
LowBits(n) == {b \in AllBits : b < n}

BitOr(x, y) == x \cup y

BitAnd(x, y) == x \cap y

BitXor(x, y) == (x \ y) \cup (y \ x)

BitNot(x) == AllBits \ x

\* bits.OnesCount64
OnesCount64(x) == Cardinality(x)

----------------------------------------------------------------------------
(* Helpers of the BitSet *)

\* mask retains the first n bits of a word and zeroes out the rest;
\* if n == 0 the original word is returned
mask(word, n) == IF n = 0 THEN word ELSE BitAnd(word, LowBits(n))

NewBitSet(numBits) ==
    [size |-> numBits,
     words |-> [i \in 0..(1 + Quo(numBits, WordBits) - 1) |-> {}]]

getWordAndPos(n) == <<Quo(n, WordBits), Rem(n, WordBits)>>

\* TRUE when checkValidBit returns a non-nil error
checkValidBitOffByOne(b, n) ==
    IF n < 0 THEN TRUE
    ELSE IF n > b.size THEN TRUE
    ELSE FALSE

checkValidBit(b, n) ==
    IF n < 0 THEN TRUE
    ELSE IF n >= b.size THEN TRUE
    ELSE FALSE

\* set with ^= in place of |=
setXor(b, n) ==
    LET wp == getWordAndPos(n)
    IN  [b EXCEPT !.words[wp[1]] = BitXor(@, Shl1(wp[2]))]

set(b, n) ==
    LET wp == getWordAndPos(n)
    IN  [b EXCEPT !.words[wp[1]] = BitOr(@, Shl1(wp[2]))]

\* clear that zeroes the bits below n as well
clearLow(b, n) ==
    LET wp == getWordAndPos(n)
    IN  [b EXCEPT !.words[wp[1]] = BitAnd(@, BitNot(LowBits(wp[2] + 1)))]

clear(b, n) ==
    LET wp == getWordAndPos(n)
    IN  [b EXCEPT !.words[wp[1]] = BitAnd(@, BitNot(Shl1(wp[2])))]

\* flip with |= in place of ^=
flipOr(b, n) ==
    LET wp == getWordAndPos(n)
    IN  [b EXCEPT !.words[wp[1]] = BitOr(@, Shl1(wp[2]))]

flip(b, n) ==
    LET wp == getWordAndPos(n)
    IN  [b EXCEPT !.words[wp[1]] = BitXor(@, Shl1(wp[2]))]

test(b, n) ==
    LET wp == getWordAndPos(n)
    IN  BitAnd(b.words[wp[1]], Shl1(wp[2])) # {}

----------------------------------------------------------------------------
(* Public operations; each returns the receiver after the call, whether   *)
(* the call returned an error, and the value it returned.                  *)

Size(b) == b.size

Set(b, n) ==
    IF checkValidBit(b, n)
    THEN [bs |-> b, err |-> TRUE, ret |-> None]
    ELSE [bs |-> set(b, n), err |-> FALSE, ret |-> None]

Clear(b, n) ==
    IF checkValidBit(b, n)
    THEN [bs |-> b, err |-> TRUE, ret |-> None]
    ELSE [bs |-> clear(b, n), err |-> FALSE, ret |-> None]

Flip(b, n) ==
    IF checkValidBit(b, n)
    THEN [bs |-> b, err |-> TRUE, ret |-> None]
    ELSE [bs |-> flip(b, n), err |-> FALSE, ret |-> None]

\* Test that resets the bit it has read
TestClearing(b, n) ==
    IF checkValidBit(b, n)
    THEN [bs |-> b, err |-> TRUE, ret |-> FALSE]
    ELSE [bs |-> clear(b, n), err |-> FALSE, ret |-> test(b, n)]

Test(b, n) ==
    IF checkValidBit(b, n)
    THEN [bs |-> b, err |-> TRUE, ret |-> FALSE]
    ELSE [bs |-> b, err |-> FALSE, ret |-> test(b, n)]


\* a rollback that clears every bit the call has set, whatever it was before
RECURSIVE SetBitsRollbackAll(_, _, _, _)
SetBitsRollbackAll(b, indices, originalBits, j) ==
    IF j > Len(originalBits) THEN b
    ELSE SetBitsRollbackAll(clear(b, indices[j]), indices, originalBits, j + 1)

\* the rollback loop of SetBits: every bit recorded as 0 is cleared again
RECURSIVE SetBitsRollback(_, _, _, _)
SetBitsRollback(b, indices, originalBits, j) ==
    IF j > Len(originalBits) THEN b
    ELSE SetBitsRollback(IF originalBits[j] = 0 THEN clear(b, indices[j]) ELSE b,
                         indices, originalBits, j + 1)

\* the loop of SetBits from position k of indices on
RECURSIVE SetBitsLoop(_, _, _, _)
SetBitsLoop(b, indices, k, originalBits) ==
    IF k > Len(indices) THEN [bs |-> b, err |-> FALSE, ret |-> None]
    ELSE LET idx == indices[k]
             t == Test(b, idx)
         IN  IF t.err
             THEN [bs |-> SetBitsRollback(b, indices, originalBits, 1),
                   err |-> TRUE, ret |-> None]
             ELSE SetBitsLoop(set(b, idx), indices, k + 1,
                              Append(originalBits, IF t.ret THEN 1 ELSE 0))

SetBits(b, indices) == SetBitsLoop(b, indices, 1, <<>>)

\* the rollback loop of ClearBits: every bit recorded as 1 is set again
RECURSIVE ClearBitsRollback(_, _, _, _)
ClearBitsRollback(b, indices, originalBits, j) ==
    IF j > Len(originalBits) THEN b
    ELSE ClearBitsRollback(IF originalBits[j] = 1 THEN set(b, indices[j]) ELSE b,
                           indices, originalBits, j + 1)

RECURSIVE ClearBitsLoop(_, _, _, _)
ClearBitsLoop(b, indices, k, originalBits) ==
    IF k > Len(indices) THEN [bs |-> b, err |-> FALSE, ret |-> None]
    ELSE LET idx == indices[k]
             t == Test(b, idx)
         IN  IF t.err
             THEN [bs |-> ClearBitsRollback(b, indices, originalBits, 1),
                   err |-> TRUE, ret |-> None]
             ELSE ClearBitsLoop(clear(b, idx), indices, k + 1,
                                Append(originalBits, IF t.ret THEN 1 ELSE 0))

\* ClearBits whose loop starts at the second index
ClearBitsSkipFirst(b, indices) == ClearBitsLoop(b, indices, 2, <<>>)

ClearBits(b, indices) == ClearBitsLoop(b, indices, 1, <<>>)

\* the inner loop of FlipBits: flips bits[j], bits[j+1], ... back until it
\* meets the index that failed, and then returns
RECURSIVE FlipBitsRollback(_, _, _, _)
FlipBitsRollback(b, bits, idx, j) ==
    IF j > Len(bits) THEN [bs |-> b, returned |-> FALSE]
    ELSE IF bits[j] = idx THEN [bs |-> b, returned |-> TRUE]
    ELSE FlipBitsRollback(flip(b, bits[j]), bits, idx, j + 1)

RECURSIVE FlipBitsLoop(_, _, _)
FlipBitsLoop(b, bits, k) ==
    IF k > Len(bits) THEN [bs |-> b, err |-> FALSE, ret |-> None]
    ELSE LET idx == bits[k]
             f == Flip(b, idx)
         IN  IF f.err
             THEN LET rb == FlipBitsRollback(f.bs, bits, idx, 1)
                  IN  IF rb.returned
                      THEN [bs |-> rb.bs, err |-> TRUE, ret |-> None]
                      ELSE FlipBitsLoop(rb.bs, bits, k + 1)
             ELSE FlipBitsLoop(f.bs, bits, k + 1)

FlipBits(b, bits) == FlipBitsLoop(b, bits, 1)

\* math.Ceil(float64(n) / 64.0) as an int, for n >= 0
CeilWords(n) == IF Rem(n, WordBits) = 0 THEN Quo(n, WordBits) ELSE Quo(n, WordBits) + 1

\* ClearAll that allocates ceil(size/64) words, as an earlier revision did
ClearAllCeil(b) == [b EXCEPT !.words = [i \in 0..(CeilWords(b.size) - 1) |-> {}]]

\* ClearAll: a fresh slice of the same length
ClearAll(b) == [b EXCEPT !.words = [i \in DOMAIN b.words |-> {}]]

\* CountSetBits
RECURSIVE SumOnes(_, _)
SumOnes(words, i) ==
    IF i \notin DOMAIN words THEN 0
    ELSE OnesCount64(words[i]) + SumOnes(words, i + 1)

CountSetBits(b) == SumOnes(b.words, 0)

\* the loop of TestBits from position i of bits on; res is the slice of
\* len(bits) bools made before the loop, a nil slice is isNil
RECURSIVE TestBitsLoop(_, _, _, _, _)
TestBitsLoop(b, bits, i, res, numSet) ==
    IF i > Len(bits)
    THEN [bs |-> b, err |-> FALSE,
          ret |-> [isNil |-> FALSE, res |-> res, numSet |-> numSet]]
    ELSE LET t == Test(b, bits[i])
         IN  IF t.err
             THEN [bs |-> t.bs, err |-> TRUE,
                   ret |-> [isNil |-> TRUE, res |-> <<>>, numSet |-> 0]]
             ELSE TestBitsLoop(t.bs, bits, i + 1, [res EXCEPT ![i] = t.ret],
                               IF t.ret THEN numSet + 1 ELSE numSet)

\* TestBits that hands back what it has gathered when an index is invalid
RECURSIVE TestBitsPartialLoop(_, _, _, _, _)
TestBitsPartialLoop(b, bits, i, res, numSet) ==
    IF i > Len(bits)
    THEN [bs |-> b, err |-> FALSE,
          ret |-> [isNil |-> FALSE, res |-> res, numSet |-> numSet]]
    ELSE LET t == Test(b, bits[i])
         IN  IF t.err
             THEN [bs |-> t.bs, err |-> TRUE,
                   ret |-> [isNil |-> FALSE, res |-> res, numSet |-> numSet]]
             ELSE TestBitsPartialLoop(t.bs, bits, i + 1, [res EXCEPT ![i] = t.ret],
                                      IF t.ret THEN numSet + 1 ELSE numSet)

TestBitsPartial(b, bits) ==
    TestBitsPartialLoop(b, bits, 1, [k \in 1..Len(bits) |-> FALSE], 0)

TestBits(b, bits) ==
    TestBitsLoop(b, bits, 1, [k \in 1..Len(bits) |-> FALSE], 0)

\* fmt.Sprintf("%b", word) with minDigits = 1 and fmt.Sprintf("%.64b", word)
\* with minDigits = 64: the binary digits of the word, most significant
\* first, padded with zeros on the left up to minDigits
Sprintfb(word, minDigits) ==
    LET hi == IF word = {} THEN 0 ELSE CHOOSE p \in word : \A q \in word : q <= p
        n == IF hi + 1 > minDigits THEN hi + 1 ELSE minDigits
    IN  [k \in 1..n |-> IF (n - k) \in word THEN "1" ELSE "0"]

\* the loop of String from word i down to word 0
RECURSIVE StringLoop(_, _, _)
StringLoop(words, i, buffer) ==
    IF i < 0 THEN buffer
    ELSE LET word == words[i]
         IN  IF word = {} THEN StringLoop(words, i - 1, buffer)
             ELSE IF i + 1 < Cardinality(DOMAIN words) /\ words[i + 1] # {}
             THEN StringLoop(words, i - 1, buffer \o Sprintfb(word, WordBits))
             ELSE StringLoop(words, i - 1, buffer \o Sprintfb(word, 1))

String(b) == StringLoop(b.words, Cardinality(DOMAIN b.words) - 1, <<>>)

\* number of words of a slice
WLen(words) == Cardinality(DOMAIN words)

\* bitsLeft at iteration i of the loops of Not, Or, And, Xor: it starts at
\* size and loses 64 per iteration
bitsLeftAt(b, i) == b.size - WordBits * i

\* in-place Not
Not(b) ==
    [b EXCEPT !.words =
        [i \in DOMAIN b.words |->
            mask(BitNot(b.words[i]), Rem(bitsLeftAt(b, i), WordBits))]]

\* in-place Or, And, Xor: i and j advance together from 0 while both are
\* inside their slices
Or(b, other) ==
    [b EXCEPT !.words =
        [i \in DOMAIN b.words |->
            IF i < WLen(other.words)
            THEN mask(BitOr(b.words[i], other.words[i]), Rem(bitsLeftAt(b, i), WordBits))
            ELSE b.words[i]]]

And(b, other) ==
    [b EXCEPT !.words =
        [i \in DOMAIN b.words |->
            IF i < WLen(other.words)
            THEN mask(BitAnd(b.words[i], other.words[i]), Rem(bitsLeftAt(b, i), WordBits))
            ELSE b.words[i]]]

\* Xor that combines the words with & (as its comment says) instead of ^
XorAsAnd(b, other) ==
    [b EXCEPT !.words =
        [i \in DOMAIN b.words |->
            IF i < WLen(other.words)
            THEN mask(BitAnd(b.words[i], other.words[i]), Rem(bitsLeftAt(b, i), WordBits))
            ELSE b.words[i]]]

Xor(b, other) ==
    [b EXCEPT !.words =
        [i \in DOMAIN b.words |->
            IF i < WLen(other.words)
            THEN mask(BitXor(b.words[i], other.words[i]), Rem(bitsLeftAt(b, i), WordBits))
            ELSE b.words[i]]]

\* the free functions Or, And, Not: a new slice as long as the larger
\* operand's, filled for the word indices of the smaller operand
smallerSet(bs1, bs2) == IF bs1.size > bs2.size THEN bs2 ELSE bs1

largerSet(bs1, bs2) == IF bs1.size > bs2.size THEN bs1 ELSE bs2

FreeOr(bs1, bs2) ==
    LET s == smallerSet(bs1, bs2)
        l == largerSet(bs1, bs2)
    IN  [size |-> l.size,
         words |-> [i \in DOMAIN l.words |->
                       IF i <= WLen(s.words) - 1
                       THEN BitOr(s.words[i], l.words[i]) ELSE {}]]

FreeAnd(bs1, bs2) ==
    LET s == smallerSet(bs1, bs2)
        l == largerSet(bs1, bs2)
    IN  [size |-> l.size,
         words |-> [i \in DOMAIN l.words |->
                       IF i <= WLen(s.words) - 1
                       THEN BitAnd(s.words[i], l.words[i]) ELSE {}]]

FreeNot(b) ==
    [size |-> b.size, words |-> [i \in DOMAIN b.words |-> BitNot(b.words[i])]]

----------------------------------------------------------------------------
(* The second operand of the binary operations: bitsets built by          *)
(* NewBitSet, SetBits and, for some, Not.                                  *)

OtherPatterns == {<<>>, <<0>>, <<1, WordBits>>}

Others ==
    LET built == {SetBits(NewBitSet(s), p).bs : s \in Sizes, p \in OtherPatterns}
    IN  built \cup {Not(x) : x \in built}

----------------------------------------------------------------------------
(* The state machine: one bitset bs and a caller that makes one call at a  *)
(* time. op, args, err, ret describe the last call and pre is the bitset   *)
(* before it, until the caller has taken the result (Return).              *)
(* heap and objs belong to the storage model further down and stay as they *)
(* are here.                                                               *)

Init ==
    /\ \E size \in Sizes : bs = NewBitSet(size)
    /\ otherBs = None
    /\ pc = "ready"
    /\ op = "NewBitSet"
    /\ args = <<>>
    /\ err = FALSE
    /\ ret = None
    /\ pre = None
    /\ heap = None
    /\ objs = None

\* the call `name(a)` on the receiver gave the result r
CalledWith(name, a, r) ==
    /\ pc = "ready"
    /\ pc' = "returned"
    /\ op' = name
    /\ args' = a
    /\ pre' = bs
    /\ bs' = r.bs
    /\ err' = r.err
    /\ ret' = r.ret
    /\ UNCHANGED <<heap, objs>>

\* a call on the receiver alone
Called(name, a, r) == CalledWith(name, a, r) /\ otherBs' = None

\* a call whose second operand is the bitset o, which the code only reads
CalledOn(name, o, r) == CalledWith(name, <<o>>, r) /\ otherBs' = o

DoSet == \E n \in Indices : Called("Set", <<n>>, Set(bs, n))

DoClear == \E n \in Indices : Called("Clear", <<n>>, Clear(bs, n))

DoFlip == \E n \in Indices : Called("Flip", <<n>>, Flip(bs, n))

DoTest == \E n \in Indices : Called("Test", <<n>>, Test(bs, n))

DoSetBits == \E s \in BulkInputs : Called("SetBits", <<s>>, SetBits(bs, s))

DoClearBits == \E s \in BulkInputs : Called("ClearBits", <<s>>, ClearBits(bs, s))

DoFlipBits == \E s \in BulkInputs : Called("FlipBits", <<s>>, FlipBits(bs, s))

DoClearAll ==
    Called("ClearAll", <<>>, [bs |-> ClearAll(bs), err |-> FALSE, ret |-> None])

DoNot == Called("Not", <<>>, [bs |-> Not(bs), err |-> FALSE, ret |-> None])

DoOr ==
    \E o \in Others :
        CalledOn("Or", o, [bs |-> Or(bs, o), err |-> FALSE, ret |-> None])

DoAnd ==
    \E o \in Others :
        CalledOn("And", o, [bs |-> And(bs, o), err |-> FALSE, ret |-> None])

DoXor ==
    \E o \in Others :
        CalledOn("Xor", o, [bs |-> Xor(bs, o), err |-> FALSE, ret |-> None])

DoFreeOr ==
    \E o \in Others :
        CalledOn("FreeOr", o, [bs |-> bs, err |-> FALSE, ret |-> FreeOr(bs, o)])

DoFreeAnd ==
    \E o \in Others :
        CalledOn("FreeAnd", o, [bs |-> bs, err |-> FALSE, ret |-> FreeAnd(bs, o)])

DoFreeNot ==
    Called("FreeNot", <<>>, [bs |-> bs, err |-> FALSE, ret |-> FreeNot(bs)])

DoTestBits == \E s \in BulkInputs : Called("TestBits", <<s>>, TestBits(bs, s))

DoCountSetBits ==
    Called("CountSetBits", <<>>, [bs |-> bs, err |-> FALSE, ret |-> CountSetBits(bs)])

DoSize == Called("Size", <<>>, [bs |-> bs, err |-> FALSE, ret |-> Size(bs)])

DoString == Called("String", <<>>, [bs |-> bs, err |-> FALSE, ret |-> String(bs)])

\* the caller has looked at the result and is ready for its next call
Return ==
    /\ pc = "returned"
    /\ pc' = "ready"
    /\ op' = None
    /\ args' = <<>>
    /\ err' = FALSE
    /\ ret' = None
    /\ pre' = None
    /\ otherBs' = None
    /\ UNCHANGED <<bs, heap, objs>>

Next ==
    \/ DoSet
    \/ DoClear
    \/ DoFlip
    \/ DoTest
    \/ DoSetBits
    \/ DoClearBits
    \/ DoFlipBits
    \/ DoClearAll
    \/ DoNot
    \/ DoOr
    \/ DoAnd
    \/ DoXor
    \/ DoFreeOr
    \/ DoFreeAnd
    \/ DoFreeNot
    \/ DoTestBits
    \/ DoCountSetBits
    \/ DoSize
    \/ DoString
    \/ Return

Spec == Init /\ [][Next]_vars

----------------------------------------------------------------------------
(* The scenario of two bitsets of 20 and 64 bits: the caller sets the     *)
(* scenario's bits of a (bs), complements b (otherBs) and clears the same  *)
(* bits of b, in any interleaving, and then calls a.Xor(b).                *)

ScenarioBits == {1, 5, 10, 15, 17}

ScenarioList == <<1, 5, 10, 15, 17>>

\* a and b as the scenario has them when it calls Xor
ScenarioA == SetBits(NewBitSet(20), ScenarioList).bs

ScenarioB == ClearBits(Not(NewBitSet(WordBits)), ScenarioList).bs

InitScenario ==
    /\ bs = NewBitSet(20)
    /\ otherBs = NewBitSet(WordBits)
    /\ pc = "ready"
    /\ op = "NewBitSet"
    /\ args = <<>>
    /\ err = FALSE
    /\ ret = None
    /\ pre = None
    /\ heap = None
    /\ objs = None

ScSetA ==
    \E n \in ScenarioBits :
        /\ pc = "ready"
        /\ ~test(bs, n)
        /\ bs' = Set(bs, n).bs
        /\ UNCHANGED <<otherBs, pc, op, args, err, ret, pre, heap, objs>>

ScNotB ==
    /\ pc = "ready"
    /\ CountSetBits(otherBs) = 0
    /\ otherBs' = Not(otherBs)
    /\ UNCHANGED <<bs, pc, op, args, err, ret, pre, heap, objs>>

ScClearB ==
    \E n \in ScenarioBits :
        /\ pc = "ready"
        /\ CountSetBits(otherBs) > 0
        /\ test(otherBs, n)
        /\ otherBs' = Clear(otherBs, n).bs
        /\ UNCHANGED <<bs, pc, op, args, err, ret, pre, heap, objs>>

ScXor ==
    /\ \A n \in ScenarioBits : test(bs, n)
    /\ CountSetBits(otherBs) > 0
    /\ \A n \in ScenarioBits : ~test(otherBs, n)
    /\ CalledWith("Xor", <<otherBs>>, [bs |-> Xor(bs, otherBs), err |-> FALSE, ret |-> None])
    /\ otherBs' = otherBs

NextScenario ==
    \/ ScSetA
    \/ ScNotB
    \/ ScClearB
    \/ ScXor

SpecScenario == InitScenario /\ [][NextScenario]_vars


----------------------------------------------------------------------------
(* Storage: a BitSet value is a size and a slice header, and several       *)
(* values may refer to the same backing array. heap maps the address of a  *)
(* backing array to its words; objs holds the caller's two operands a, b   *)
(* and the result r of the last free function, each a size and the address *)
(* of its words. The in-place operators write through the receiver's       *)
(* address, the free functions through the address that make returns.      *)

\* addresses of backing arrays: a, b, r and one more for the next result
Addrs == 1..4

\* indices the caller flips when it mutates a, b or r afterwards
OwnIndices == {0, WordBits}

\* the nil *BitSet of a result variable that holds no result yet
NilObj == [size |-> 0, ref |-> 0]

\* the bitset the object o is, in the heap h
deref(h, o) == [size |-> o.size, words |-> h[o.ref]]

\* the addresses the caller's objects refer to
Live(o) ==
    {o.a.ref, o.b.ref} \cup (IF o.r = NilObj THEN {} ELSE {o.r.ref})

makeShared(h, o) == o.a.ref

\* make([]uint64, n): the address of a backing array no object refers to
make(h, o) ==
    CHOOSE x \in Addrs \ Live(o) : \A y \in Addrs \ Live(o) : x <= y

\* the heap once the arrays no object of o refers to are collected
Collect(h, o) == [x \in Addrs |-> IF x \in Live(o) THEN h[x] ELSE <<>>]

InitOwn ==
    /\ \E sa \in Sizes, sb \in Sizes :
        /\ objs = [a |-> [size |-> sa, ref |-> 1],
                   b |-> [size |-> sb, ref |-> 2],
                   r |-> NilObj]
        /\ heap = [x \in Addrs |->
                     CASE x = 1 -> NewBitSet(sa).words
                       [] x = 2 -> NewBitSet(sb).words
                       [] OTHER -> <<>>]
    /\ bs = None
    /\ otherBs = None
    /\ pc = "ready"
    /\ op = "NewBitSet"
    /\ args = <<>>
    /\ err = FALSE
    /\ ret = None
    /\ pre = None

\* r = f(...): the free function's result res is written to the array that
\* make returned and r refers to it from now on
OwnReturned(name, res) ==
    LET x == make(heap, objs)
        o == [objs EXCEPT !.r = [size |-> res.size, ref |-> x]]
    IN  /\ objs' = o
        /\ heap' = Collect([heap EXCEPT ![x] = res.words], o)
        /\ op' = name
        /\ UNCHANGED <<bs, otherBs, pc, args, err, ret, pre>>

\* the words of the receiver o become those of res, in place
OwnWritten(name, o, res) ==
    /\ heap' = [heap EXCEPT ![o.ref] = res.words]
    /\ op' = name
    /\ UNCHANGED <<objs, bs, otherBs, pc, args, err, ret, pre>>

OwnFreeOr ==
    OwnReturned("FreeOr", FreeOr(deref(heap, objs.a), deref(heap, objs.b)))

OwnFreeAnd ==
    OwnReturned("FreeAnd", FreeAnd(deref(heap, objs.a), deref(heap, objs.b)))

OwnFreeNot == OwnReturned("FreeNot", FreeNot(deref(heap, objs.a)))

OwnOr ==
    OwnWritten("Or", objs.a, Or(deref(heap, objs.a), deref(heap, objs.b)))

OwnAnd ==
    OwnWritten("And", objs.a, And(deref(heap, objs.a), deref(heap, objs.b)))

OwnXor ==
    OwnWritten("Xor", objs.a, Xor(deref(heap, objs.a), deref(heap, objs.b)))

\* later mutations of an operand or of the result
OwnFlipA ==
    \E n \in OwnIndices :
        OwnWritten("FlipA", objs.a, Flip(deref(heap, objs.a), n).bs)

OwnFlipB ==
    \E n \in OwnIndices :
        OwnWritten("FlipB", objs.b, Flip(deref(heap, objs.b), n).bs)

OwnFlipR ==
    /\ objs.r # NilObj
    /\ \E n \in OwnIndices :
        OwnWritten("FlipR", objs.r, Flip(deref(heap, objs.r), n).bs)

NextOwn ==
    \/ OwnFreeOr
    \/ OwnFreeAnd
    \/ OwnFreeNot
    \/ OwnOr
    \/ OwnAnd
    \/ OwnXor
    \/ OwnFlipA
    \/ OwnFlipB
    \/ OwnFlipR

SpecOwn == InitOwn /\ [][NextOwn]_vars

----------------------------------------------------------------------------
(* Observations used by the properties *)

\* the logical positions of a bitset
Positions(b) == 0..(Size(b) - 1)

\* the logical position of bit p of word i
PosOf(i, p) == WordBits * i + p

\* no bit of the backing words lies at a logical position >= size
TailClean(b) ==
    \A i \in DOMAIN b.words : \A p \in b.words[i] : PosOf(i, p) < Size(b)

\* same Size(), same Test(n) for every valid n, same CountSetBits()
ObservablyEqual(x, y) ==
    /\ Size(x) = Size(y)
    /\ \A n \in Positions(x) : test(x, n) = test(y, n)
    /\ CountSetBits(x) = CountSetBits(y)

OutOfRange(b, n) == n < 0 \/ n >= Size(b)

SeqRange(s) == {s[k] : k \in 1..Len(s)}

Occurrences(s, n) == Cardinality({k \in 1..Len(s) : s[k] = n})

SingleOps == {"Set", "Clear", "Flip", "Test"}

BulkOps == {"SetBits", "ClearBits", "FlipBits"}

FreeOps == {"FreeNot", "FreeOr", "FreeAnd"}

\* the single-index operation that the bulk operation `name` repeats
Single(name, b, n) ==
    CASE name = "SetBits" -> Set(b, n)
      [] name = "ClearBits" -> Clear(b, n)
      [] name = "FlipBits" -> Flip(b, n)

\* Set, Clear or Flip applied to each index of s in input order
RECURSIVE ApplyEach(_, _, _, _)
ApplyEach(name, b, s, k) ==
    IF k > Len(s) THEN b
    ELSE ApplyEach(name, Single(name, b, s[k]).bs, s, k + 1)

----------------------------------------------------------------------------
(* Properties *)

\* C1: tail invariant: in every reachable bitset, and in every bitset
\* returned by the free functions Not, Or, And, every bit of the backing
\* words at a logical position >= size is 0.
C1_TailInvariant ==
    /\ TailClean(bs)
    /\ op \in FreeOps => TailClean(ret)

\* C2: in-place Not complements every logical bit and keeps Size():
\* after bs.Not(), Test(n) is the negation of Test(n) before, for every
\* n with 0 <= n < size.
C2_NotComplements ==
    op = "Not" =>
        /\ Size(bs) = Size(pre)
        /\ \A n \in Positions(pre) : test(bs, n) = ~test(pre, n)

\* C3: Not is an involution: a second in-place Not gives back a bitset
\* observably equal to the one before the first Not, and the free Not of
\* the result of the free Not is observably equal to its operand.
C3_NotInvolution ==
    /\ op = "Not" => ObservablyEqual(Not(bs), pre)
    /\ op = "FreeNot" => ObservablyEqual(FreeNot(ret), bs)

\* C4: in every reachable state CountSetBits() is the number of logical
\* positions n in [0, size) for which Test(n) is true.
C4_CountIsLogicalCount ==
    CountSetBits(bs) = Cardinality({n \in Positions(bs) : test(bs, n)})

\* C5: Set, Clear, Flip and Test return an error if and only if n < 0 or
\* n >= size, and a call that returns an error leaves the size and every
\* word as they were.
C5_ErrorIffOutOfRange ==
    op \in SingleOps =>
        /\ err <=> OutOfRange(pre, args[1])
        /\ err => bs = pre

C5_Witness ==
    /\ op \in SingleOps
    /\ err
    /\ args[1] = Size(pre)
    /\ Size(pre) = WordBits
    /\ CountSetBits(pre) > 0

\* C6: for a valid n, after Set(n) Test(n) is true, after Clear(n) it is
\* false, after Flip(n) it is the negation of its prior value; Test(m)
\* for every other m and Size() are unchanged.
C6_SingleBitEffect ==
    (op \in {"Set", "Clear", "Flip"} /\ ~err) =>
        LET n == args[1]
        IN  /\ Size(bs) = Size(pre)
            /\ op = "Set" => test(bs, n)
            /\ op = "Clear" => ~test(bs, n)
            /\ op = "Flip" => (test(bs, n) = ~test(pre, n))
            /\ \A m \in Positions(pre) \ {n} : test(bs, m) = test(pre, m)

C6_Witness ==
    /\ op = "Clear"
    /\ ~err
    /\ test(pre, args[1])
    /\ \E m \in Positions(pre) : m < args[1] /\ test(pre, m)

\* C7: Set is idempotent: a second Set(n) after a Set(n) succeeds and
\* leaves all words and the size as the first one left them, with bit n
\* still set.
C7_SetIdempotent ==
    (op = "Set" /\ ~err) =>
        LET again == Set(bs, args[1])
        IN  /\ ~again.err
            /\ again.bs = bs
            /\ test(again.bs, args[1])

C7_Witness ==
    /\ op = "Set"
    /\ ~err
    /\ test(pre, args[1])
    /\ bs = pre

\* C8: Flip is self-inverse: a second Flip(n) after a Flip(n) gives back
\* all words and the size of the state before the first.
C8_FlipSelfInverse ==
    (op = "Flip" /\ ~err) =>
        LET again == Flip(bs, args[1])
        IN  /\ ~again.err
            /\ again.bs = pre

C8_Witness ==
    /\ op = "Flip"
    /\ ~err
    /\ ~test(pre, args[1])
    /\ test(bs, args[1])
    /\ Size(pre) > WordBits

\* C9: bulk atomicity: if any index handed to SetBits, ClearBits or
\* FlipBits is out of range, the call returns an error and every word and
\* the size are as before the call.
C9_BulkAtomic ==
    (op \in BulkOps /\ \E n \in SeqRange(args[1]) : OutOfRange(pre, n)) =>
        /\ err
        /\ bs = pre

\* an in-range index repeats before the invalid one
C9_Witness ==
    /\ op \in BulkOps
    /\ err
    /\ Len(args[1]) = 3
    /\ args[1][1] = args[1][2]
    /\ ~OutOfRange(pre, args[1][1])
    /\ OutOfRange(pre, args[1][3])
    /\ bs = pre

\* C10: when every index is in range, SetBits, ClearBits and FlipBits
\* return no error and leave the bitset in the state reached by Set,
\* Clear or Flip of each index in input order: a listed index is set,
\* cleared, or toggled once per occurrence, and no unlisted bit changes.
C10_BulkIsSequential ==
    (op \in BulkOps /\ \A n \in SeqRange(args[1]) : ~OutOfRange(pre, n)) =>
        /\ ~err
        /\ bs = ApplyEach(op, pre, args[1], 1)
        /\ Size(bs) = Size(pre)
        /\ \A n \in Positions(pre) :
              test(bs, n) =
                  CASE op = "SetBits" -> (test(pre, n) \/ n \in SeqRange(args[1]))
                    [] op = "ClearBits" -> (test(pre, n) /\ n \notin SeqRange(args[1]))
                    [] op = "FlipBits" ->
                         (test(pre, n) = (Occurrences(args[1], n) % 2 = 0))

\* a list with a duplicate that changes bits
C10_Witness ==
    /\ op = "FlipBits"
    /\ ~err
    /\ Len(args[1]) = 3
    /\ args[1][1] = args[1][3]
    /\ args[1][1] # args[1][2]
    /\ bs # pre


QueryOps == {"Test", "TestBits", "CountSetBits", "Size", "String"}

InPlaceBinaryOps == {"Or", "And", "Xor"}

FreeBinaryOps == {"FreeOr", "FreeAnd"}

MaxOf(x, y) == IF x > y THEN x ELSE y

MinOf(x, y) == IF x < y THEN x ELSE y

\* C11: TestBits with every index in range returns, for each position i
\* of the input, Test(indices[i]), the number of positions whose result
\* is true, and no error; with any index out of range it returns an
\* error, no per-index result and count 0.
C11_TestBits ==
    op = "TestBits" =>
        LET s == args[1]
        IN  IF \A n \in SeqRange(s) : ~OutOfRange(pre, n)
            THEN /\ ~err
                 /\ ~ret.isNil
                 /\ Len(ret.res) = Len(s)
                 /\ \A i \in 1..Len(s) : ret.res[i] = test(pre, s[i])
                 /\ ret.numSet = Cardinality({i \in 1..Len(s) : test(pre, s[i])})
            ELSE /\ err
                 /\ ret.isNil
                 /\ ret.numSet = 0

\* a set index that repeats is counted once per occurrence
C11_Witness ==
    /\ op = "TestBits"
    /\ ~err
    /\ Len(args[1]) = 3
    /\ args[1][1] = args[1][3]
    /\ args[1][1] # args[1][2]
    /\ test(pre, args[1][1])
    /\ ~test(pre, args[1][2])
    /\ ret.numSet = 2

\* C12: Test, TestBits, CountSetBits, Size and String never modify the
\* bitset: after any of them, on success or on error, every word and the
\* size are as before the call.
C12_QueriesDoNotModify ==
    op \in QueryOps => bs = pre

\* a TestBits that read a set bit before it failed
C12_Witness ==
    /\ op = "TestBits"
    /\ err
    /\ Len(args[1]) >= 2
    /\ ~OutOfRange(pre, args[1][1])
    /\ test(pre, args[1][1])
    /\ bs = pre

\* C13: ClearAll sets every word to zero and changes neither the size nor
\* the number of backing words: afterwards Test(n) is false for every
\* valid n, CountSetBits() is 0, and Set(n) succeeds for every valid n.
C13_ClearAll ==
    op = "ClearAll" =>
        /\ \A i \in DOMAIN bs.words : bs.words[i] = {}
        /\ Size(bs) = Size(pre)
        /\ DOMAIN bs.words = DOMAIN pre.words
        /\ \A n \in Positions(bs) : ~test(bs, n)
        /\ CountSetBits(bs) = 0
        /\ \A n \in Positions(bs) : ~Set(bs, n).err /\ test(Set(bs, n).bs, n)

\* ClearAll of a bitset of an exact multiple of 64 bits that had bits set
\* in both of its words
C13_Witness ==
    /\ op = "ClearAll"
    /\ Size(pre) = WordBits
    /\ \A i \in DOMAIN pre.words : pre.words[i] # {}
    /\ CountSetBits(bs) = 0

\* C14: for Or, And and Xor between bitsets a and b of any sizes, the size
\* of the result (the receiver after the in-place call, the returned
\* bitset of the free function) is max(a.size, b.size).
C14_ResultSizeIsMax ==
    /\ op \in InPlaceBinaryOps =>
          Size(bs) = MaxOf(Size(pre), Size(args[1]))
    /\ op \in FreeBinaryOps =>
          Size(ret) = MaxOf(Size(bs), Size(args[1]))

\* C15: free function Or(a, b): below the smaller size bit n of the result
\* is bit_n(a) OR bit_n(b); from the smaller size up to the larger size it
\* is the larger operand's bit n. Stated for operands that satisfy the
\* tail invariant, so that a failure is the free function's own.
C15_FreeOr ==
    (op = "FreeOr" /\ TailClean(bs) /\ TailClean(args[1])) =>
        LET a == bs
            b == args[1]
            l == IF Size(a) > Size(b) THEN a ELSE b
        IN  /\ \A n \in 0..(MinOf(Size(a), Size(b)) - 1) :
                  test(ret, n) = (test(a, n) \/ test(b, n))
            /\ \A n \in MinOf(Size(a), Size(b))..(MaxOf(Size(a), Size(b)) - 1) :
                  test(ret, n) = test(l, n)

\* C16: in-place a.Or(b) with a.size >= b.size: for n < b.size, Test(n)
\* is old bit_n(a) OR bit_n(b); for n in [b.size, a.size) it is old
\* bit_n(a); no bit of a that was set is cleared. Stated for operands
\* that satisfy the tail invariant.
C16_InPlaceOr ==
    (op = "Or" /\ Size(pre) >= Size(args[1]) /\ TailClean(pre) /\ TailClean(args[1])) =>
        LET b == args[1]
        IN  /\ \A n \in 0..(Size(b) - 1) :
                  test(bs, n) = (test(pre, n) \/ test(b, n))
            /\ \A n \in Size(b)..(Size(pre) - 1) : test(bs, n) = test(pre, n)
            /\ \A n \in Positions(pre) : test(pre, n) => test(bs, n)

\* C17: And, in place and as free function: below the smaller size bit n
\* of the result is bit_n(a) AND bit_n(b); from the smaller size up to
\* the result's size it is 0. Stated for operands that satisfy the tail
\* invariant.
C17_And ==
    /\ (op = "And" /\ TailClean(pre) /\ TailClean(args[1])) =>
          LET b == args[1]
              m == MinOf(Size(pre), Size(b))
          IN  /\ \A n \in 0..(m - 1) : test(bs, n) = (test(pre, n) /\ test(b, n))
              /\ \A n \in m..(Size(bs) - 1) : ~test(bs, n)
    /\ (op = "FreeAnd" /\ TailClean(bs) /\ TailClean(args[1])) =>
          LET b == args[1]
              m == MinOf(Size(bs), Size(b))
          IN  /\ \A n \in 0..(m - 1) : test(ret, n) = (test(bs, n) /\ test(b, n))
              /\ \A n \in m..(Size(ret) - 1) : ~test(ret, n)

\* C18: in-place a.Xor(b) for any sizes: below the smaller size bit n of
\* the result is bit_n(a) XOR bit_n(b); from the smaller size up to the
\* larger size it is the larger operand's bit n. Stated for operands that
\* satisfy the tail invariant.
C18_InPlaceXor ==
    (op = "Xor" /\ TailClean(pre) /\ TailClean(args[1])) =>
        LET b == args[1]
            l == IF Size(pre) > Size(b) THEN pre ELSE b
        IN  /\ \A n \in 0..(MinOf(Size(pre), Size(b)) - 1) :
                  test(bs, n) = (test(pre, n) # test(b, n))
            /\ \A n \in MinOf(Size(pre), Size(b))..(MaxOf(Size(pre), Size(b)) - 1) :
                  /\ n < Size(bs)
                  /\ test(bs, n) = test(l, n)

C20_StringOfZero ==
    (op = "String" /\ CountSetBits(pre) = 0) =>
        /\ Len(ret) >= 1
        /\ \A k \in 1..Len(ret) : ret[k] = "0"

\* the positions, counted from the right end of the digit string str, whose
\* digit is "1"
OnesOfString(str) == {i \in 0..(Len(str) - 1) : str[Len(str) - i] = "1"}

\* the indices n of b for which Test(n) is true
SetIndices(b) == {n \in Positions(b) : test(b, n)}

\* C21: String round trip. For a bitset reached by Set operations (no bit
\* at or beyond its size), the positions of the "1" digits of String(),
\* counted from the right end, are exactly the indices n with Test(n) true,
\* also when a lower word is entirely zero while a higher word is not.
C21_StringRoundTrip ==
    (op = "String" /\ TailClean(pre)) => OnesOfString(ret) = SetIndices(pre)

\* the words the object o of objs has before and after a step
WordsOf(o) == heap[o.ref]

WordsOfNext(o) == heap'[o.ref]

\* C22: ownership. The free functions Or(a, b), And(a, b), Not(a) leave
\* both operands unchanged and return a bitset whose words are stored
\* apart from both operands' (a later mutation of the result changes no
\* operand, a later mutation of an operand does not change the result), and
\* the in-place a.Or(b), a.And(b), a.Xor(b) leave b unchanged.
C22_Ownership ==
    [][/\ op' \in FreeOps =>
            /\ WordsOfNext(objs.a) = WordsOf(objs.a)
            /\ WordsOfNext(objs.b) = WordsOf(objs.b)
            /\ objs'.a = objs.a
            /\ objs'.b = objs.b
            /\ objs'.r.ref \notin {objs.a.ref, objs.b.ref}
       /\ op' \in InPlaceBinaryOps =>
            /\ WordsOfNext(objs.b) = WordsOf(objs.b)
            /\ objs'.b = objs.b
       /\ op' = "FlipR" =>
            /\ WordsOfNext(objs.a) = WordsOf(objs.a)
            /\ WordsOfNext(objs.b) = WordsOf(objs.b)
       /\ (op' \in {"FlipA", "FlipB"} /\ objs.r # NilObj) =>
            WordsOfNext(objs.r) = WordsOf(objs.r)
       /\ op' = "FlipA" => WordsOfNext(objs.b) = WordsOf(objs.b)
       /\ op' = "FlipB" => WordsOfNext(objs.a) = WordsOf(objs.a)
      ]_vars

\* the result of a free function has been mutated afterwards and now
\* differs from the operand a, which has the same size
C22_Witness ==
    /\ op = "FlipR"
    /\ objs.r.ref \notin {objs.a.ref, objs.b.ref}
    /\ objs.r.size = objs.a.size
    /\ WordsOf(objs.r) # WordsOf(objs.a)
    /\ test(deref(heap, objs.r), 0)
    /\ ~test(deref(heap, objs.a), 0)

\* the sizes the claim and the tests name
NamedSizes == {512, 511, 513, 4416, 420}

\* C23: NewBitSet(size) allocates exactly ceil(size/64) words for every
\* size >= 0 (8 words for 512 and for 511, 9 for 513, 69 for 4416, 7 for
\* 420, no extra word for exact multiples of 64), all of them zero, and
\* the word count never changes afterwards.
C23_WordCount ==
    /\ WLen(bs.words) = CeilWords(Size(bs))
    /\ op = "NewBitSet" => \A i \in DOMAIN bs.words : bs.words[i] = {}
    /\ \A n \in NamedSizes : WLen(NewBitSet(n).words) = CeilWords(n)

----------------------------------------------------------------------------
(* The slice accesses and shifts a call makes. Go panics on words[i] with  *)
(* i outside 0..len-1 and on a shift by a negative count.                  *)

\* the access words[i] of a slice
Access(words, i) == [len |-> WLen(words), idx |-> i]

\* set, clear, flip, test: bs.words[wordIdx] and 1 << bitIdx
bitAccesses(b, n) == {Access(b.words, getWordAndPos(n)[1])}

bitShifts(n) == {getWordAndPos(n)[2]}

\* Set, Clear, Flip, Test: nothing is accessed when checkValidBit fails
SingleAccesses(b, n) == IF checkValidBit(b, n) THEN {} ELSE bitAccesses(b, n)

SingleShifts(b, n) == IF checkValidBit(b, n) THEN {} ELSE bitShifts(n)

\* the positions of the list whose index SetBits, ClearBits, FlipBits and
\* TestBits get to set, clear, flip or test: those before the first index
\* that checkValidBit rejects; a rollback revisits some of them
Visited(b, indices) ==
    {k \in 1..Len(indices) : \A j \in 1..k : ~checkValidBit(b, indices[j])}

BulkAccesses(b, indices) ==
    UNION {bitAccesses(b, indices[k]) : k \in Visited(b, indices)}

BulkShifts(b, indices) ==
    UNION {bitShifts(indices[k]) : k \in Visited(b, indices)}

\* mask: (1 << n) unless n = 0
maskShifts(n) == IF n = 0 THEN {} ELSE {n}

\* range loops over bs.words: Not (in place and free), CountSetBits
RangeAccesses(b) == {Access(b.words, i) : i \in DOMAIN b.words}

NotShifts(b) ==
    UNION {maskShifts(Rem(bitsLeftAt(b, i), WordBits)) : i \in DOMAIN b.words}

InPlaceLoopOfReceiver(b, other) == {i \in 0..WLen(b.words) : i < WLen(b.words)}

\* the values of i (= j) for which the loop of the in-place Or, And, Xor
\* runs its body: i < len(bs.words) && j < len(other.words)
InPlaceLoop(b, other) ==
    {i \in 0..WLen(b.words) : i < WLen(b.words) /\ i < WLen(other.words)}

InPlaceAccesses(b, other) ==
    UNION {{Access(b.words, i), Access(other.words, i)} : i \in InPlaceLoop(b, other)}

InPlaceShifts(b, other) ==
    UNION {maskShifts(Rem(bitsLeftAt(b, i), WordBits)) : i \in InPlaceLoop(b, other)}

\* the free Or, And: i from len(smallerSet.words) - 1 down to 0 indexes
\* newBitArray (as long as largerSet.words) and both operands
FreeAccesses(bs1, bs2) ==
    LET s == smallerSet(bs1, bs2)
        l == largerSet(bs1, bs2)
    IN  UNION {{Access(l.words, i), Access(s.words, i)} :
                   i \in 0..(WLen(s.words) - 1)}

\* String: words[i] for every i, and words[i+1] when words[i] is not zero
\* and i + 1 < len(bs.words)
StringAccesses(b) ==
    RangeAccesses(b) \cup
    {Access(b.words, i + 1) :
        i \in {k \in DOMAIN b.words : b.words[k] # {} /\ k + 1 < WLen(b.words)}}

\* the accesses of the call name(a) on the receiver b
Accesses(name, b, a) ==
    CASE name \in SingleOps -> SingleAccesses(b, a[1])
      [] name \in BulkOps \cup {"TestBits"} -> BulkAccesses(b, a[1])
      [] name \in {"Not", "FreeNot", "CountSetBits"} -> RangeAccesses(b)
      [] name \in InPlaceBinaryOps -> InPlaceAccesses(b, a[1])
      [] name \in FreeBinaryOps -> FreeAccesses(b, a[1])
      [] name = "String" -> StringAccesses(b)
      [] OTHER -> {}

\* the shift counts of the call name(a) on the receiver b
Shifts(name, b, a) ==
    CASE name \in SingleOps -> SingleShifts(b, a[1])
      [] name \in BulkOps \cup {"TestBits"} -> BulkShifts(b, a[1])
      [] name = "Not" -> NotShifts(b)
      [] name \in InPlaceBinaryOps -> InPlaceShifts(b, a[1])
      [] OTHER -> {}

\* C24: no out-of-bounds access. No call of a public operation, with any
\* index (negative, in range, >= size) and any pair of equally or
\* differently sized operands, reads or writes a word index outside
\* [0, number of words) or shifts by a negative count; the call returns
\* normally or with an error, and the receiver and a free function's result
\* have the word count NewBitSet gives their size, so that they are
\* operands like any other for the calls that follow.
C24_NoOutOfBounds ==
    pc = "returned" =>
        /\ \A acc \in Accesses(op, pre, args) : 0 <= acc.idx /\ acc.idx < acc.len
        /\ \A n \in Shifts(op, pre, args) : n >= 0
        /\ err \in BOOLEAN
        /\ WLen(bs.words) = WLen(NewBitSet(Size(bs)).words)
        /\ op \in FreeOps => WLen(ret.words) = WLen(NewBitSet(Size(ret)).words)

\* an in-place operator has returned whose receiver has two words and
\* whose operand has one
C24_Witness ==
    /\ pc = "returned"
    /\ op \in InPlaceBinaryOps
    /\ WLen(args[1].words) < WLen(pre.words)
    /\ InPlaceAccesses(pre, args[1]) # {}
    /\ Size(pre) > WordBits

\* same size and same Test(n) for every valid n
SameBits(x, y) ==
    /\ Size(x) = Size(y)
    /\ \A n \in Positions(x) : test(x, n) = test(y, n)

\* C25: the in-place and the free variants agree. For a and b with
\* a.size >= b.size (no bit at or beyond their sizes), the receiver after
\* a.Or(b) has the size and the Test(n) of the bitset Or(a, b) returns for
\* the same operands, likewise a.And(b) and And(a, b), a.Not() and Not(a).
C25_VariantsAgree ==
    /\ (op \in {"Or", "And"} /\ TailClean(pre) /\ TailClean(args[1])
            /\ Size(pre) >= Size(args[1])) =>
          SameBits(bs, IF op = "Or" THEN FreeOr(pre, args[1])
                                    ELSE FreeAnd(pre, args[1]))
    /\ (op = "Not" /\ TailClean(pre)) => SameBits(bs, FreeNot(pre))

====
